---- MODULE Spec2Model ----
(***************************************************************************)
(* ALPack sandbox execution engine: main -> Run::run -> Command::run.      *)
(*                                                                         *)
(* Text is modelled as a sequence of symbols.  A symbol is either the      *)
(* white-space symbol SP or a chunk of characters that holds no white      *)
(* space; format!/push_str are concatenation, split_whitespace and         *)
(* split(':') cut the sequence at the separator symbol.  An argument of     *)
(* the child process is again a sequence of symbols (it may hold SP).      *)
(* An Option<T> is a sequence of length 0 (None) or 1 (Some).              *)
(***************************************************************************)
EXTENDS Integers, Sequences, FiniteSets, TLC

\* ------------------------------------------------------------------ bounds
\* Child exit codes range over 0..MaxExitCode.
MaxExitCode == 2
\* Number of entries of the host icon directory /usr/share/icons.
MaxIcons == 2
\* Number of consecutive invocations of the program on the same host.
MaxRuns == 2

\* ------------------------------------------------------------------ text
SP == " "
None == <<>>
Some(v) == <<v>>
IsSome(o) == o # <<>>
Unwrap(o) == o[1]

\* Option::unwrap_or_default for a String.
unwrap_or_default(o) ==
    IF IsSome(o) THEN Unwrap(o) ELSE <<>>

RECURSIVE split(_, _)
\* str::split(sep): the pieces between the separator symbols, empty pieces
\* included.  The pieces of a text are those of its two halves, the last
\* piece of the first half running on into the first piece of the second.
split(s, sep) ==
    IF s = <<>> THEN << <<>> >>
    ELSE IF Len(s) = 1 THEN (IF s[1] = sep THEN << <<>>, <<>> >> ELSE <<s>>)
    ELSE LET h == Len(s) \div 2
             l == split(SubSeq(s, 1, h), sep)
             r == split(SubSeq(s, h + 1, Len(s)), sep)
         IN  SubSeq(l, 1, Len(l) - 1) \o << l[Len(l)] \o r[1] >> \o Tail(r)

NonEmpty(w) == w # <<>>

\* str::split_whitespace: the maximal white-space-free pieces, none empty.
split_whitespace(s) ==
    SelectSeq(split(s, SP), NonEmpty)

\* str::starts_with.
starts_with(s, p) ==
    /\ Len(p) <= Len(s)
    /\ SubSeq(s, 1, Len(p)) = p

RECURSIVE TrimEnd(_, _)
TrimEnd(s, c) ==
    IF s # <<>> /\ s[Len(s)] = c THEN TrimEnd(SubSeq(s, 1, Len(s) - 1), c) ELSE s

RECURSIVE TrimStart(_, _)
TrimStart(s, c) ==
    IF s # <<>> /\ Head(s) = c THEN TrimStart(Tail(s), c) ELSE s

\* concat_path!(base, segment): one slash between the trimmed parts.
concat_path(base, segment) ==
    TrimEnd(base, "/") \o <<"/">> \o TrimEnd(TrimStart(segment, "/"), "/")

\* s holds t as a contiguous piece.
Contains(s, t) ==
    \E i \in 0..(Len(s) - Len(t)) : SubSeq(s, i + 1, i + Len(t)) = t

\* The sequence s from position n + 1 on.
Drop(s, n) ==
    SubSeq(s, n + 1, Len(s))

RECURSIVE Flatten(_)
Flatten(ss) ==
    IF ss = <<>> THEN <<>> ELSE Head(ss) \o Flatten(Tail(ss))

\* All orders in which the members of a finite set can be enumerated.
Orders(S) ==
    {f \in [1..Cardinality(S) -> S] : \A i, j \in 1..Cardinality(S) : f[i] = f[j] => i = j}

\* ------------------------------------------------------------------ state
VARIABLES
    \* persisted configuration and host environment
    comm,            \* Settings.cmd_rootfs, the configured backend identifier
    rootfsKind,      \* what is at rootfsPath: "dir", "file" or "missing"
    whichHit,        \* the backend is an executable on the search path
    localBin,        \* <home>/.local/bin/<backend>: "missing", "plain", "exec"
    localDir,        \* <home>/.local/bin: "missing", "dir", or "denied" (cannot be made)
    localDirChmod,   \* mode 0o755 was set on the directory <home>/.local/bin
    arch,            \* env::consts::ARCH
    net,             \* what a download does: "ok", "error", "no_length"
    home,            \* Option: the HOME variable
    envUser,         \* Option: the USER variable
    envLogname,      \* Option: the LOGNAME variable
    passwd,          \* Option: the lines of the host /etc/passwd
    realUid,         \* the real uid of the calling process
    fixedExists,     \* the host paths that exist, among the optional candidates
    iconsReadable,   \* /usr/share/icons can be enumerated
    iconCursors,     \* the entries of /usr/share/icons with a cursors directory
    argv,            \* the arguments after the `run` keyword
    envRootfs,       \* Option: the ALPACK_ROOTFS variable
    settRootfs,      \* Settings.rootfs_dir, the configured rootfs directory
    guest,           \* the guest rootfs: [etc, mtab, writable]
    \* the request handed to Command::run
    rootfs, args_bind, cmd, use_root, ignore_extra_bind, no_group,
    \* the invocation
    pc,              \* position of the invocation
    rootfs_cmd,      \* Option: the resolved backend executable
    options,         \* Option: the option string of the backend variant
    full_args,       \* the argument vector handed to the child
    result,          \* what Command::run returned
    exit_code,       \* Option: the exit code of the process
    spawned,         \* number of children spawned
    reports,         \* number of error reports written by main
    warnings,        \* number of warnings logged by Mount Table Repair
    childStatus,     \* Option: how the child ended
    downloads,       \* number of downloads of a backend binary
    repair,          \* what Mount Table Repair returned, Pending when not run
    run_result,      \* what Run::run returned
    guestWrites,     \* number of changes Mount Table Repair made to the guest tree
    mt,              \* Mount Table Repair of this invocation ("self") and of an
                     \* invocation running at the same time on the same rootfs
                     \* ("peer"): [pc, res, warns, writes, g0]
    runs,            \* number of invocations started so far
    prev             \* what the invocation before this one left:
                     \* [ran, rootfs_cmd, repair, guest, writes]

hostVars == <<comm, rootfsKind, whichHit, arch, net, home, envUser, envLogname,
              passwd, realUid, fixedExists, iconsReadable, iconCursors, argv,
              envRootfs, settRootfs>>
requestVars == <<rootfs, args_bind, cmd, use_root, ignore_extra_bind, no_group>>
historyVars == <<runs, prev>>
vars == <<hostVars, requestVars, localBin, localDir, localDirChmod, guest, pc, rootfs_cmd,
          options, full_args, result, exit_code, spawned, reports, warnings,
          childStatus, downloads, repair, run_result, guestWrites, mt, historyVars>>

\* Result values.
Pending == [kind |-> "pending", val |-> 0, err |-> ""]
Ok(v) == [kind |-> "ok", val |-> v, err |-> ""]
Err(e) == [kind |-> "err", val |-> 0, err |-> e]
Panicked == [kind |-> "panic", val |-> 0, err |-> ""]

\* ------------------------------------------------------------------ utils.rs
\* get_safe_home: HOME, or "." when the variable is unset.
get_safe_home ==
    IF IsSome(home) THEN Unwrap(home) ELSE <<".">>

\* check_rootfs_exists testing that the path exists, not that it is a directory.
check_rootfs_exists_AnyKind(kind) ==
    IF kind # "missing" THEN Ok(0) ELSE Err("RootfsMissing")

\* check_rootfs_exists: fs::metadata(path).map(|m| m.is_dir()).unwrap_or(false).
check_rootfs_exists(kind) ==
    IF kind = "dir" THEN Ok(0) ELSE Err("RootfsMissing")

\* binary_url: a download URL for the two supported commands only.
binary_url(c) ==
    CASE c = "proot" -> Some(<<"https://github.com/LinuxDicasPro/StaticHub/releases/download/proot/proot">>)
      [] c = "bwrap" -> Some(<<"https://github.com/LinuxDicasPro/StaticHub/releases/download/bwrap/bwrap">>)
      [] OTHER -> None

\* download_file(url, dest, filename): the file is fetched into dest and the
\* directory it was saved in is returned.  bin is the state of dest/filename
\* afterwards.  create_dir_with_fallback(dest) finds dest present, the caller
\* having created it, so its permission-denied fallback is not taken here.
download_file(url, dest, filename) ==
    LET save_dest == dest
        save_file == concat_path(save_dest, filename)
    IN  IF localBin # "missing"
        THEN [res |-> Ok(0), path |-> save_dest, bin |-> localBin, file |-> save_file]
        ELSE CASE net = "error" ->
                    [res |-> Err("DownloadFailed"), path |-> <<>>, bin |-> localBin, file |-> save_file]
               [] net = "no_length" ->
                    [res |-> Panicked, path |-> <<>>, bin |-> localBin, file |-> save_file]
               [] OTHER ->
                    [res |-> Ok(0), path |-> save_dest, bin |-> "plain", file |-> save_file]

\* make_executable(path): mode 0o755 is set on path.  Yields the state of the
\* cached binary `file` afterwards: executable when path is that file.
make_executable(path, file, bin) ==
    IF path = file THEN "exec" ELSE bin

\* The path `which` reports for a command found on the search path.
WhichPath(c) ==
    <<"/usr/bin", "/", c>>

\* arch_supported accepting every architecture.
arch_supported_Any(a) ==
    TRUE

\* env::consts::ARCH is the one architecture static binaries are published for.
arch_supported(a) ==
    a = "x86_64"

\* verify_and_download_rootfs_command: search path, then local cache, then
\* (x86_64 only) download.  Yields the result with the resolved path, the
\* state of the cached binary and of its directory, whether mode 0o755 was
\* set on the directory make_executable was handed, and whether a download
\* took place.
verify_and_download_rootfs_command(cmd_rootfs) ==
    LET local_dir == concat_path(get_safe_home, <<".local/bin">>)
        local_path == concat_path(local_dir, <<cmd_rootfs>>)
        keep(r, p) == [res |-> r, path |-> p, bin |-> localBin, dir |-> localDir,
                       dirChmod |-> localDirChmod, fetched |-> FALSE]
        url == binary_url(cmd_rootfs)
        dl == download_file(Unwrap(url), local_dir, <<cmd_rootfs>>)
    IN  IF whichHit THEN keep(Ok(0), WhichPath(cmd_rootfs))
        ELSE IF localBin # "missing" THEN keep(Ok(0), local_path)
        ELSE IF ~arch_supported(arch) THEN keep(Err("BackendUnavailable"), <<>>)
        ELSE IF ~IsSome(url) THEN keep(Err("InvalidInput"), <<>>)
        \* fs::create_dir_all(&local_dir)?
        ELSE IF localDir = "denied" THEN keep(Err("CreateDirFailed"), <<>>)
        ELSE IF dl.res.kind # "ok"
             THEN [res |-> dl.res, path |-> <<>>, bin |-> dl.bin, dir |-> "dir",
                   dirChmod |-> localDirChmod, fetched |-> FALSE]
             ELSE [res |-> Ok(0), path |-> dl.path,
                   bin |-> make_executable(dl.path, local_path, dl.bin), dir |-> "dir",
                   dirChmod |-> (dl.path = local_dir), fetched |-> TRUE]

\* ------------------------------------------------------------------ command.rs
\* The text of words joined by single spaces (an empty word leaves two
\* adjacent spaces, as an empty {placeholder} does in format!).
RECURSIVE JoinSp(_)
JoinSp(ws) ==
    IF ws = <<>> THEN <<>>
    ELSE IF Len(ws) = 1 THEN Head(ws)
    ELSE Head(ws) \o <<SP>> \o JoinSp(Tail(ws))

\* The entries of /usr/share/icons and their names: a name is any file name,
\* that of the even entries holds white space.
IconEntries == 1..MaxIcons
IconName(e) ==
    IF e % 2 = 0 THEN <<"My", SP, "Theme", ToString(e)>> ELSE <<"theme", ToString(e)>>

\* entry.path().join("cursors")
CursorsDir(e) ==
    <<"/usr/share/icons/">> \o IconName(e) \o <<"/cursors">>

\* ProotCandidates without the themes directory.
ProotCandidates_NoThemes ==
    << <<"/etc/asound.conf">>, <<"/etc/fonts">>, <<"/usr/share/font-config">>,
       <<"/usr/share/fontconfig">>, <<"/usr/share/fonts">> >>

\* The optional host paths build_proot_options probes, in its order.
ProotCandidates ==
    << <<"/etc/asound.conf">>, <<"/etc/fonts">>, <<"/usr/share/font-config">>,
       <<"/usr/share/fontconfig">>, <<"/usr/share/fonts">>, <<"/usr/share/themes">> >>

\* The optional host paths build_bwrap_options probes, in its order.
BwrapCandidates ==
    << <<"/etc/asound.conf">>, <<"/etc/fonts">>, <<"/usr/share/font-config">>,
       <<"/usr/share/fontconfig">>, <<"/usr/share/fonts">>, <<"/usr/share/themes">> >>

\* ProotBase without the {rootfs_args} placeholder.
ProotBase_NoArgs(rootfs_, rootfs_args) ==
    <<"-R", SP>> \o rootfs_ \o <<SP, "--bind=/media", SP, "--bind=/mnt", SP>>

\* format!("-R {rootfs} --bind=/media --bind=/mnt {rootfs_args}")
ProotBase(rootfs_, rootfs_args) ==
    <<"-R", SP>> \o rootfs_ \o <<SP, "--bind=/media", SP, "--bind=/mnt", SP>> \o rootfs_args

\* The two binds of the guest's own group and passwd files.
ProotGroupBinds(rootfs_) ==
    <<SP, "--bind=">> \o rootfs_ \o <<"/etc/group:/etc/group">>
    \o <<SP, "--bind=">> \o rootfs_ \o <<"/etc/passwd:/etc/passwd">>

\* ProotGroupGate with the test of the flag negated.
ProotGroupGate_Negated(no_group_) ==
    ~no_group_

\* The condition under which build_proot_options adds ProotGroupBinds.
ProotGroupGate(no_group_) ==
    no_group_

\* One --bind=<path> per existing candidate, then one per cursors directory in
\* the order `order` in which read_dir yields the entries.
ProotExtraBinds(order) ==
    Flatten([i \in 1..Len(ProotCandidates) |->
                IF ProotCandidates[i] \in fixedExists
                THEN <<SP, "--bind=">> \o ProotCandidates[i] ELSE <<>>])
    \o (IF iconsReadable
        THEN Flatten([i \in 1..Len(order) |->
                IF order[i] \in iconCursors
                THEN <<SP, "--bind=">> \o CursorsDir(order[i]) ELSE <<>>])
        ELSE <<>>)

\* build_proot_options: the PRoot option string.
build_proot_options(rootfs_, rootfs_args, no_extra_binds, no_group_, order) ==
    ProotBase(rootfs_, rootfs_args)
    \o (IF ProotGroupGate(no_group_) THEN ProotGroupBinds(rootfs_) ELSE <<>>)
    \o (IF ~no_extra_binds THEN ProotExtraBinds(order) ELSE <<>>)

\* The PATH value of the Namespace variant, quote characters included.
BwrapPathValue ==
    <<"\"", "/bin:/sbin:/usr/bin:/usr/sbin:/usr/libexec", "\"">>

RoBindTry(p) == <<"--ro-bind-try", SP, p, SP, p>>

\* The format! of build_bwrap_options, a being the HOME variable.
BwrapBase(rootfs_, rootfs_args, a) ==
    JoinSp(<< <<"--unshare-user">>, <<"--share-net">>,
              <<"--bind">>, rootfs_, <<"/">>,
              <<"--die-with-parent">>,
              RoBindTry("/etc/host.conf"), RoBindTry("/etc/hosts"),
              RoBindTry("/etc/hosts.equiv"), RoBindTry("/etc/netgroup"),
              RoBindTry("/etc/networks"), RoBindTry("/etc/nsswitch.conf"),
              RoBindTry("/etc/resolv.conf"), RoBindTry("/etc/localtime"),
              <<"--dev-bind", SP, "/dev", SP, "/dev">>,
              <<"--ro-bind", SP, "/sys", SP, "/sys">>,
              <<"--bind-try", SP, "/proc", SP, "/proc">>,
              <<"--bind-try", SP, "/tmp", SP, "/tmp">>,
              <<"--bind-try", SP, "/run", SP, "/run">>,
              <<"--ro-bind", SP, "/var/run/dbus/system_bus_socket", SP,
                "/var/run/dbus/system_bus_socket">>,
              <<"--bind">>, a, a,
              <<"--bind", SP, "/media", SP, "/media">>,
              <<"--bind", SP, "/mnt", SP, "/mnt">>,
              rootfs_args,
              <<"--setenv", SP, "PATH", SP>> \o BwrapPathValue >>)

\* The read-only binds of the host's passwd and group files.
BwrapGroupBinds ==
    <<SP>> \o RoBindTry("/etc/passwd") \o <<SP>> \o RoBindTry("/etc/group")

\* BwrapGroupGate with the flag ignored.
BwrapGroupGate_Always(no_group_) ==
    TRUE

\* The condition under which build_bwrap_options adds BwrapGroupBinds.
BwrapGroupGate(no_group_) ==
    ~no_group_

\* One --ro-bind <path> <path> per existing candidate, then one per cursors
\* directory in the order in which read_dir yields the entries.
BwrapExtraBinds(order) ==
    Flatten([i \in 1..Len(BwrapCandidates) |->
                IF BwrapCandidates[i] \in fixedExists
                THEN <<SP, "--ro-bind", SP>> \o BwrapCandidates[i] \o <<SP>> \o BwrapCandidates[i]
                ELSE <<>>])
    \o (IF iconsReadable
        THEN Flatten([i \in 1..Len(order) |->
                IF order[i] \in iconCursors
                THEN <<SP, "--ro-bind", SP>> \o CursorsDir(order[i]) \o <<SP>> \o CursorsDir(order[i])
                ELSE <<>>])
        ELSE <<>>)

\* build_bwrap_options: the Bubblewrap option string (HOME being set and
\* Mount Table Repair having returned Ok; see BuildOptions for the rest).
build_bwrap_options(rootfs_, rootfs_args, ignore_extra_binds, no_group_, a, order) ==
    BwrapBase(rootfs_, rootfs_args, a)
    \o (IF BwrapGroupGate(no_group_) THEN BwrapGroupBinds ELSE <<>>)
    \o (IF ~ignore_extra_binds THEN BwrapExtraBinds(order) ELSE <<>>)

\* The uid values of the model, and str::parse::<u32> of a field: Some(n) when
\* the field is the numeral of n, None when it is anything else.
Uids == {0, 1000, 1001}
parse_u32(field) ==
    IF Len(field) = 1 /\ \E n \in Uids : ToString(n) = field[1]
    THEN Some(CHOOSE n \in Uids : ToString(n) = field[1])
    ELSE None

\* The uid get_uid_from_passwd falls back to.
FallbackUid == 1000

\* Iterator::find over the lines of a text.
RECURSIVE find_line(_, _)
find_line(lines, prefix) ==
    IF lines = <<>> THEN None
    ELSE IF starts_with(Head(lines), prefix) THEN Some(Head(lines))
    ELSE find_line(Tail(lines), prefix)

\* get_uid_from_passwd: the third field of the first /etc/passwd line that
\* starts with $USER (or $LOGNAME when USER is unset), 1000 when there is none.
get_uid_from_passwd ==
    LET username == IF IsSome(envUser) THEN Unwrap(envUser)
                    ELSE unwrap_or_default(envLogname)
        text == unwrap_or_default(passwd)
        line == find_line(text, username)
        fields == split(Unwrap(line), ":")
        uid == parse_u32(fields[3])
    IN  IF username = <<>> \/ text = <<>> THEN FallbackUid
        ELSE IF ~IsSome(line) THEN FallbackUid
        ELSE IF Len(fields) < 3 THEN FallbackUid
        ELSE IF ~IsSome(uid) THEN FallbackUid
        ELSE Unwrap(uid)

\* target_is_desired taking every readable link for the desired one.
target_is_desired_AnyLink(mtab) ==
    mtab \in {"link_ok", "link_other"}

\* target_is_desired never true: the link is made anew on every call.
target_is_desired_Never(mtab) ==
    FALSE

\* fs::read_link(&mtab_path) yields Ok(target) with target == desired_target.
target_is_desired(mtab) ==
    mtab = "link_ok"

\* The guest g = [etc, mtab, writable]: etc is what is at <rootfs>/etc
\* ("missing", "dir", "file"), mtab what is at <rootfs>/etc/mtab ("missing",
\* "file", "dir", "link_ok", "link_other", "link_broken"), writable whether the
\* guest tree can be modified.
NoGuest == [etc |-> "missing", mtab |-> "missing", writable |-> FALSE]

\* fs::create_dir_all(parent): the guest afterwards and whether the call
\* returned Ok.
create_dir_all(g) ==
    IF g.etc = "dir" THEN [guest |-> g, ok |-> TRUE]
    ELSE IF g.etc = "missing" /\ g.writable
    THEN [guest |-> [g EXCEPT !.etc = "dir"], ok |-> TRUE]
    ELSE [guest |-> g, ok |-> FALSE]

\* fs::symlink_metadata(&mtab_path): "err", or what the file type is.
symlink_metadata(g) ==
    IF g.etc # "dir" \/ g.mtab = "missing" THEN "err"
    ELSE IF g.mtab \in {"link_ok", "link_other", "link_broken"} THEN "symlink"
    ELSE "other"

\* fs::read_link(&mtab_path) returns Ok(target): the path is a symlink.
read_link_ok(g) ==
    g.etc = "dir" /\ g.mtab \in {"link_ok", "link_other", "link_broken"}

\* fs::remove_file leaving the path as it is and returning Ok.
remove_file_Skip(g) ==
    [guest |-> g, ok |-> TRUE]

\* fs::remove_file(&mtab_path): a directory is never removed by it.
remove_file(g) ==
    IF g.etc = "dir" /\ g.writable /\ g.mtab \notin {"missing", "dir"}
    THEN [guest |-> [g EXCEPT !.mtab = "missing"], ok |-> TRUE]
    ELSE [guest |-> g, ok |-> FALSE]

\* symlink whose error is dropped by the caller.
symlink_ErrorDropped(g) ==
    IF g.etc = "dir" /\ g.writable /\ g.mtab = "missing"
    THEN [guest |-> [g EXCEPT !.mtab = "link_ok"], ok |-> TRUE]
    ELSE [guest |-> g, ok |-> TRUE]

\* symlink(desired_target, &mtab_path): fails when the path exists.
symlink(g) ==
    IF g.etc = "dir" /\ g.writable /\ g.mtab = "missing"
    THEN [guest |-> [g EXCEPT !.mtab = "link_ok"], ok |-> TRUE]
    ELSE [guest |-> g, ok |-> FALSE]

\* IdentityStr with the caller's uid in the tokens of every identity.
IdentityStr_CallerUid(c, use_root_, uid) ==
    IF use_root_
    THEN <<"PS1=", "#", SP, "|", "USER=root", "|", "LOGNAME=root", "|",
           "UID=", ToString(uid), "|", "EUID=", ToString(uid)>>
    ELSE <<"PS1=", "$", SP, "|", "UID=", ToString(uid), "|", "EUID=", ToString(uid)>>

\* The environment tokens of the identity, as one '|'-separated text.
IdentityStr(c, use_root_, uid) ==
    LET user == <<"PS1=", "$", SP, "|", "UID=", ToString(uid), "|", "EUID=", ToString(uid)>>
    IN  CASE c = "proot" /\ use_root_ ->
               <<"PS1=", "#", SP, "|", "USER=root", "|", "LOGNAME=root", "|",
                 "UID=", "0", "|", "EUID=", "0">>
          [] c = "proot" /\ ~use_root_ -> user
          [] c = "bwrap" /\ use_root_ -> <<"PS1=", "#", SP>>
          [] c = "bwrap" /\ ~use_root_ -> user
          [] OTHER -> user

\* The backend arguments of the root identity.
RootArgs(c, use_root_) ==
    (IF c = "proot" /\ use_root_ THEN << <<"-0">> >> ELSE <<>>)
    \o (IF c = "bwrap" /\ use_root_
        THEN << <<"--uid">>, <<"0">>, <<"--gid">>, <<"0">>,
                <<"--setenv">>, <<"USER">>, <<"root">>,
                <<"--setenv">>, <<"LOGNAME">>, <<"root">> >>
        ELSE <<>>)

\* The arguments after the identity tokens.
ShellArgs ==
    << <<"SHELL=/bin/sh">>, <<"PATH=", "/bin:/sbin:/usr/bin:/usr/sbin:/usr/libexec">>,
       <<"/bin/sh">> >>

\* CommandArgs with the command line cut at white space.
CommandArgs_Split(new_cmd) ==
    IF new_cmd # <<>> THEN << <<"-c">> >> \o split_whitespace(new_cmd) ELSE <<>>

\* The -c part: the whole command line as one argument.
CommandArgs(new_cmd) ==
    IF new_cmd # <<>> THEN << <<"-c">>, new_cmd >> ELSE <<>>

\* Command::run, lines 29-65: the argument vector of the child.
compose_full_args(c, args, cmd_, use_root_, uid) ==
    split_whitespace(args)
    \o RootArgs(c, use_root_)
    \o << <<"env">> >>
    \o split(IdentityStr(c, use_root_, uid), "|")
    \o ShellArgs
    \o CommandArgs(unwrap_or_default(cmd_))

\* ------------------------------------------------------------------ run.rs
\* The characters the argument parser looks for are symbols of their own in an
\* argument: the dash an argument begins with and the equals sign after a key.
DASH == "-"
EQ == "="
Flag(name) == <<DASH, name>>
LongFlag(name) == <<DASH, DASH, name>>
Inline(name, value) == <<DASH, DASH, name, EQ>> \o value

\* str::starts_with('-')
starts_with_dash(a) ==
    a # <<>> /\ Head(a) = DASH

\* str::find('='): the index of the first equals sign, 0 when there is none.
find_eq(a) ==
    IF \E i \in 1..Len(a) : a[i] = EQ
    THEN CHOOSE i \in 1..Len(a) : a[i] = EQ /\ \A j \in 1..(i - 1) : a[j] # EQ
    ELSE 0

\* parse_key_value!: the value after the first equals sign of the argument,
\* or else the next argument unless it is empty or begins with a dash; None is
\* the error `<key> requires a <value>`.
parse_key_value(arg, next) ==
    IF find_eq(arg) > 0
    THEN IF Drop(arg, find_eq(arg)) = <<>> THEN None ELSE Some(Drop(arg, find_eq(arg)))
    ELSE IF IsSome(next) /\ Unwrap(next) # <<>> /\ ~starts_with_dash(Unwrap(next))
         THEN next
         ELSE None

\* Settings::set_rootfs reading the configuration only.
set_rootfs_ConfigOnly ==
    settRootfs

\* Settings::set_rootfs: ALPACK_ROOTFS, or rootfs_dir of the configuration.
set_rootfs ==
    IF IsSome(envRootfs) THEN Unwrap(envRootfs) ELSE settRootfs

\* VecDeque::pop_front on the arguments left.
pop_front(args) ==
    IF args = <<>> THEN None ELSE Some(Head(args))
rest_after_pop(args) ==
    IF args = <<>> THEN <<>> ELSE Tail(args)

\* The locals of Run::run before the first argument is read.
RunLocals ==
    [err |-> "", rootfs_dir |-> set_rootfs, bind_args |-> None, cmd_args |-> <<>>,
     use_root |-> FALSE, ignore_extra_bind |-> FALSE, no_groups |-> FALSE]

\* The loop of Run::run over the arguments: the locals when the loop ends, err
\* naming the error the loop returned with.
RECURSIVE parse_args(_, _)
parse_args(args, st) ==
    IF args = <<>> THEN st
    ELSE
    LET arg == Head(args)
        rest == Tail(args)
        inl == parse_key_value(arg, None)
        nxt == parse_key_value(arg, pop_front(rest))
        rest2 == rest_after_pop(rest)
        missing == [st EXCEPT !.err = "MissingValue"]
    IN  IF arg \in {Flag("0"), LongFlag("root")}
        THEN parse_args(rest, [st EXCEPT !.use_root = TRUE])
        ELSE IF arg \in {Flag("i"), LongFlag("ignore-extra-binds")}
        THEN parse_args(rest, [st EXCEPT !.ignore_extra_bind = TRUE])
        ELSE IF arg \in {Flag("n"), LongFlag("no-groups")}
        THEN parse_args(rest, [st EXCEPT !.no_groups = TRUE])
        ELSE IF starts_with(arg, Inline("bind-args", <<>>))
        THEN IF IsSome(inl) THEN parse_args(rest, [st EXCEPT !.bind_args = inl]) ELSE missing
        ELSE IF arg \in {Flag("b"), LongFlag("bind-args")}
        THEN IF IsSome(nxt) THEN parse_args(rest2, [st EXCEPT !.bind_args = nxt]) ELSE missing
        ELSE IF starts_with(arg, Inline("command", <<>>))
        THEN IF IsSome(inl)
             THEN parse_args(rest, [st EXCEPT !.cmd_args = Append(@, Unwrap(inl))])
             ELSE missing
        ELSE IF arg \in {Flag("c"), LongFlag("command")}
        THEN IF IsSome(nxt)
             THEN parse_args(rest2, [st EXCEPT !.cmd_args = Append(@, Unwrap(nxt))])
             ELSE missing
        ELSE IF starts_with(arg, Inline("rootfs", <<>>))
        THEN IF IsSome(inl) THEN parse_args(rest, [st EXCEPT !.rootfs_dir = Unwrap(inl)])
             ELSE missing
        ELSE IF arg \in {Flag("R"), LongFlag("rootfs")}
        THEN IF IsSome(nxt) THEN parse_args(rest2, [st EXCEPT !.rootfs_dir = Unwrap(nxt)])
             ELSE missing
        ELSE IF arg = <<DASH, DASH>>
        THEN [st EXCEPT !.cmd_args = @ \o rest]
        ELSE IF starts_with_dash(arg)
        THEN [st EXCEPT !.err = "InvalidArgument"]
        ELSE [st EXCEPT !.cmd_args = @ \o <<arg>> \o rest]

\* final_cmd putting the words of the command together with nothing between.
final_cmd_Concat(cmd_args) ==
    IF cmd_args # <<>> THEN Some(Flatten(cmd_args)) ELSE None

\* final_cmd: the words of the command joined by single spaces, None when
\* there is no word.
final_cmd(cmd_args) ==
    IF cmd_args # <<>> THEN Some(JoinSp(cmd_args)) ELSE None

\* ------------------------------------------------------------------ actions
\* The exit status of a process that panicked: 101 when the panic unwinds,
\* 134 (SIGABRT) when the build aborts on panic.
PanicCodes == {101, 134}

\* How a child can end: with an exit code, or killed by a signal.
ChildOutcomes ==
    [kind : {"exited"}, code : 0..MaxExitCode] \cup {[kind |-> "signaled", code |-> 0]}

\* status_code with a default of 0 for a child that has no exit code.
status_code_DefaultZero(st) ==
    IF st.kind = "exited" THEN st.code ELSE 0

\* ExitStatus::code().unwrap_or(-1)
status_code(st) ==
    IF st.kind = "exited" THEN st.code ELSE -1

\* The resolved path can be executed by the operating system.
CanExec(path) ==
    \/ path = WhichPath(comm)
    \/ /\ path = concat_path(concat_path(get_safe_home, <<".local/bin">>), <<comm>>)
       /\ localBin = "exec"

\* main -> alpack -> Run::run, lines 35-84: the arguments are parsed into the
\* request Command::run is called with; an argument error is what Run::run
\* returns, and Command::run is not called.
Dispatch ==
    /\ pc = "main"
    /\ LET st == parse_args(argv, RunLocals)
       IN  IF st.err = ""
           THEN /\ rootfs' = st.rootfs_dir
                /\ args_bind' = st.bind_args
                /\ cmd' = final_cmd(st.cmd_args)
                /\ use_root' = st.use_root
                /\ ignore_extra_bind' = st.ignore_extra_bind
                /\ no_group' = st.no_groups
                /\ pc' = "check"
                /\ UNCHANGED run_result
           ELSE /\ run_result' = Err(st.err)
                /\ pc' = "main_ret"
                /\ UNCHANGED requestVars
    /\ UNCHANGED <<hostVars, localBin, localDirChmod, guest, rootfs_cmd,
                   options, full_args, result, exit_code, spawned, reports, warnings,
                   childStatus, downloads, repair>>
    /\ UNCHANGED <<localDir, guestWrites, mt, historyVars>>

\* CheckRootfs without the `?`: the failed check does not end Command::run.
CheckRootfs_GoesOn ==
    /\ pc = "check"
    /\ pc' = "resolve"
    /\ result' = result
    /\ UNCHANGED <<hostVars, requestVars, localBin, localDirChmod, guest, rootfs_cmd,
                   options, full_args, exit_code, spawned, reports, warnings,
                   childStatus, downloads, repair, run_result>>
    /\ UNCHANGED <<localDir, guestWrites, mt, historyVars>>

\* Command::run, line 18: utils::check_rootfs_exists(...)?
CheckRootfs ==
    /\ pc = "check"
    /\ LET r == check_rootfs_exists(rootfsKind)
       IN  IF r.kind = "ok"
           THEN pc' = "resolve" /\ result' = result
           ELSE pc' = "run_ret" /\ result' = r
    /\ UNCHANGED <<hostVars, requestVars, localBin, localDirChmod, guest, rootfs_cmd,
                   options, full_args, exit_code, spawned, reports, warnings,
                   childStatus, downloads, repair, run_result>>
    /\ UNCHANGED <<localDir, guestWrites, mt, historyVars>>

\* Command::run, lines 20-21: verify_and_download_rootfs_command(&comm)?
ResolveBackend ==
    /\ pc = "resolve"
    /\ \E code \in PanicCodes :
         LET r == verify_and_download_rootfs_command(comm)
         IN  /\ localBin' = r.bin
             /\ localDir' = r.dir
             /\ localDirChmod' = r.dirChmod
             /\ downloads' = IF r.fetched THEN downloads + 1 ELSE downloads
             /\ CASE r.res.kind = "ok" ->
                       /\ rootfs_cmd' = Some(r.path)
                       /\ pc' = "build"
                       /\ UNCHANGED <<result, exit_code>>
                  [] r.res.kind = "err" ->
                       /\ result' = r.res
                       /\ pc' = "run_ret"
                       /\ UNCHANGED <<rootfs_cmd, exit_code>>
                  [] OTHER ->
                       /\ result' = Panicked
                       /\ exit_code' = Some(code)
                       /\ pc' = "exited"
                       /\ UNCHANGED rootfs_cmd
    /\ UNCHANGED <<hostVars, requestVars, guest, options, full_args, spawned, reports,
                   warnings, childStatus, run_result, repair>>
    /\ UNCHANGED <<guestWrites, mt, historyVars>>

\* The invocations that can run Mount Table Repair on the rootfs: this one,
\* and one that runs at the same time.
Procs == {"self", "peer"}

\* Mount Table Repair not called, and at its first step on the guest g.
MtIdle == [pc |-> "idle", res |-> Pending, warns |-> 0, writes |-> 0, g0 |-> NoGuest]
MtStart(g) == [pc |-> "mkdir", res |-> Pending, warns |-> 0, writes |-> 0, g0 |-> g]

\* BuildOptions calling Mount Table Repair for the Ptrace variant as well.
BuildOptions_RepairFirst ==
    /\ pc = "build"
    /\ \E code \in PanicCodes :
         CASE comm = "proot" ->
                /\ mt' = [mt EXCEPT !["self"] = MtStart(guest)]
                /\ pc' = "repair"
                /\ UNCHANGED <<options, result, exit_code>>
           [] comm = "bwrap" /\ ~IsSome(home) ->
                /\ result' = Panicked
                /\ exit_code' = Some(code)
                /\ pc' = "exited"
                /\ UNCHANGED <<mt, options>>
           [] comm = "bwrap" /\ IsSome(home) ->
                /\ mt' = [mt EXCEPT !["self"] = MtStart(guest)]
                /\ pc' = "repair"
                /\ UNCHANGED <<options, result, exit_code>>
           [] OTHER ->
                /\ result' = Err("UnsupportedCommand")
                /\ pc' = "run_ret"
                /\ UNCHANGED <<mt, options, exit_code>>
    /\ UNCHANGED <<hostVars, requestVars, localBin, localDirChmod, rootfs_cmd, full_args,
                   spawned, reports, childStatus, downloads, run_result>>
    /\ UNCHANGED <<localDir, guest, guestWrites, warnings, repair, historyVars>>

\* Command::run, lines 23-27: the option string of the configured variant.
\* build_proot_options returns it at once; build_bwrap_options unwraps HOME in
\* its format! and then calls Mount Table Repair (line 191).
BuildOptions ==
    /\ pc = "build"
    /\ \E order \in Orders(IconEntries), code \in PanicCodes :
         CASE comm = "proot" ->
                /\ options' = Some(build_proot_options(rootfs, unwrap_or_default(args_bind),
                                                       ignore_extra_bind, no_group, order))
                /\ pc' = "compose"
                /\ UNCHANGED <<mt, result, exit_code>>
           [] comm = "bwrap" /\ ~IsSome(home) ->
                /\ result' = Panicked
                /\ exit_code' = Some(code)
                /\ pc' = "exited"
                /\ UNCHANGED <<mt, options>>
           [] comm = "bwrap" /\ IsSome(home) ->
                /\ mt' = [mt EXCEPT !["self"] = MtStart(guest)]
                /\ pc' = "repair"
                /\ UNCHANGED <<options, result, exit_code>>
           [] OTHER ->
                /\ result' = Err("UnsupportedCommand")
                /\ pc' = "run_ret"
                /\ UNCHANGED <<mt, options, exit_code>>
    /\ UNCHANGED <<hostVars, requestVars, localBin, localDirChmod, rootfs_cmd, full_args,
                   spawned, reports, childStatus, downloads, run_result>>
    /\ UNCHANGED <<localDir, guest, guestWrites, warnings, repair, historyVars>>

\* Invocation p is at step `at` of Mount Table Repair; this invocation is
\* inside build_bwrap_options then.
MtAt(p, at) ==
    /\ mt[p].pc = at
    /\ p = "self" => pc = "repair"

\* What a filesystem step of Mount Table Repair leaves alone.
MtFrame ==
    /\ UNCHANGED <<hostVars, requestVars, localBin, localDirChmod, rootfs_cmd, options,
                   full_args, result, exit_code, spawned, reports, warnings, childStatus,
                   downloads, repair, run_result>>
    /\ UNCHANGED <<localDir, pc, guestWrites, historyVars>>

\* fix_mtab_symlink, lines 272-276: the parent directory is made, a failure
\* is logged as a warning.
MtabCreateParent(p) ==
    /\ MtAt(p, "mkdir")
    /\ LET r == create_dir_all(guest)
       IN  /\ guest' = r.guest
           /\ mt' = [mt EXCEPT ![p].pc = "meta",
                               ![p].warns = IF r.ok THEN @ ELSE @ + 1,
                               ![p].writes = IF r.guest # guest THEN @ + 1 ELSE @]
    /\ MtFrame

\* fix_mtab_symlink, lines 278-280 and 303: what is at the path.
MtabMetadata(p) ==
    /\ MtAt(p, "meta")
    /\ LET m == symlink_metadata(guest)
       IN  mt' = [mt EXCEPT ![p].pc = CASE m = "err" -> "symlink"
                                        [] m = "symlink" -> "readlink"
                                        [] OTHER -> "remove"]
    /\ guest' = guest
    /\ MtFrame

\* fix_mtab_symlink, lines 281-296: the target of the symlink is read; the
\* function returns when it is the desired one.
MtabReadLink(p) ==
    /\ MtAt(p, "readlink")
    /\ IF read_link_ok(guest) /\ target_is_desired(guest.mtab)
       THEN mt' = [mt EXCEPT ![p].pc = "done", ![p].res = Ok(0)]
       ELSE mt' = [mt EXCEPT ![p].pc = "remove"]
    /\ guest' = guest
    /\ MtFrame

\* fix_mtab_symlink, lines 286-288, 292-294, 298-300: what is at the path is
\* removed, a failure is logged as a warning.
MtabRemove(p) ==
    /\ MtAt(p, "remove")
    /\ LET r == remove_file(guest)
       IN  /\ guest' = r.guest
           /\ mt' = [mt EXCEPT ![p].pc = "symlink",
                               ![p].warns = IF r.ok THEN @ ELSE @ + 1,
                               ![p].writes = IF r.guest # guest THEN @ + 1 ELSE @]
    /\ MtFrame

\* fix_mtab_symlink, lines 306-311: the symlink is made; a failure is logged
\* as a warning and returned.
MtabSymlink(p) ==
    /\ MtAt(p, "symlink")
    /\ LET r == symlink(guest)
       IN  /\ guest' = r.guest
           /\ mt' = [mt EXCEPT ![p].pc = "done",
                               ![p].res = IF r.ok THEN Ok(0) ELSE Err("MountRepair"),
                               ![p].warns = IF r.ok THEN @ ELSE @ + 1,
                               ![p].writes = IF r.guest # guest THEN @ + 1 ELSE @]
    /\ MtFrame

\* build_bwrap_options, lines 191-228: the result of Mount Table Repair is
\* unwrapped and the option string is completed.
FinishBwrapOptions ==
    /\ pc = "repair"
    /\ mt["self"].pc = "done"
    /\ repair' = mt["self"].res
    /\ warnings' = warnings + mt["self"].warns
    /\ guestWrites' = guestWrites + mt["self"].writes
    /\ \E order \in Orders(IconEntries), code \in PanicCodes :
         IF mt["self"].res.kind = "ok"
         THEN /\ options' = Some(build_bwrap_options(rootfs, unwrap_or_default(args_bind),
                                                     ignore_extra_bind, no_group,
                                                     Unwrap(home), order))
              /\ pc' = "compose"
              /\ UNCHANGED <<result, exit_code>>
         ELSE /\ result' = Panicked
              /\ exit_code' = Some(code)
              /\ pc' = "exited"
              /\ UNCHANGED options
    /\ UNCHANGED <<hostVars, requestVars, localBin, localDirChmod, rootfs_cmd, full_args,
                   spawned, reports, childStatus, downloads, run_result>>
    /\ UNCHANGED <<localDir, guest, mt, historyVars>>

\* Command::run, lines 29-65: the argument vector.
ComposeArgs ==
    /\ pc = "compose"
    /\ full_args' = compose_full_args(comm, Unwrap(options), cmd, use_root,
                                      get_uid_from_passwd)
    /\ pc' = "spawn"
    /\ UNCHANGED <<hostVars, requestVars, localBin, localDirChmod, guest, rootfs_cmd,
                   options, result, exit_code, spawned, reports, warnings,
                   childStatus, downloads, repair, run_result>>
    /\ UNCHANGED <<localDir, guestWrites, mt, historyVars>>

\* Command::run, lines 67-72: the child is created, or the spawn fails.
Spawn ==
    /\ pc = "spawn"
    /\ \E ok \in BOOLEAN :
         /\ ok => CanExec(Unwrap(rootfs_cmd))
         /\ IF ok
            THEN spawned' = spawned + 1 /\ pc' = "wait" /\ result' = result
            ELSE spawned' = spawned /\ pc' = "run_ret" /\ result' = Err("SpawnError")
    /\ UNCHANGED <<hostVars, requestVars, localBin, localDirChmod, guest, rootfs_cmd,
                   options, full_args, exit_code, reports, warnings, childStatus,
                   downloads, run_result, repair>>
    /\ UNCHANGED <<localDir, guestWrites, mt, historyVars>>

\* Command::run, lines 72-74: the child ends; Ok(status.code().unwrap_or(-1)).
ChildExit ==
    /\ pc = "wait"
    /\ \E st \in ChildOutcomes :
         /\ childStatus' = Some(st)
         /\ result' = Ok(status_code(st))
    /\ pc' = "run_ret"
    /\ UNCHANGED <<hostVars, requestVars, localBin, localDirChmod, guest, rootfs_cmd,
                   options, full_args, exit_code, spawned, reports, warnings,
                   downloads, run_result, repair>>
    /\ UNCHANGED <<localDir, guestWrites, mt, historyVars>>

\* Run::run, lines 86-94: Command::run(...)?; Ok(())
run_return(r) ==
    IF r.kind = "ok" THEN Ok(0) ELSE r

RunReturn ==
    /\ pc = "run_ret"
    /\ run_result' = run_return(result)
    /\ pc' = "main_ret"
    /\ UNCHANGED <<hostVars, requestVars, localBin, localDirChmod, guest, rootfs_cmd,
                   options, full_args, result, exit_code, spawned, reports, warnings,
                   childStatus, downloads, repair>>
    /\ UNCHANGED <<localDir, guestWrites, mt, historyVars>>

\* main, lines 216-222: the exit code of an Ok(()) and of an Err(e).
main_exit_code(r) ==
    IF r.kind = "ok" THEN 0 ELSE 1

\* main: the error is reported and the process exits.
MainExit ==
    /\ pc = "main_ret"
    /\ exit_code' = Some(main_exit_code(run_result))
    /\ reports' = IF run_result.kind = "ok" THEN reports ELSE reports + 1
    /\ pc' = "exited"
    /\ UNCHANGED <<hostVars, requestVars, localBin, localDirChmod, guest, rootfs_cmd,
                   options, full_args, result, spawned, warnings, childStatus,
                   downloads, run_result, repair>>
    /\ UNCHANGED <<localDir, guestWrites, mt, historyVars>>

\* The program is run once more on the same host with the same request: a new
\* process starts from main, the files of the host and of the guest are as the
\* invocation before left them.
Reinvoke ==
    /\ pc = "exited"
    /\ runs < MaxRuns
    /\ runs' = runs + 1
    /\ prev' = [ran |-> TRUE, rootfs_cmd |-> rootfs_cmd, repair |-> repair, guest |-> guest,
                writes |-> guestWrites]
    /\ pc' = "main"
    /\ rootfs_cmd' = None
    /\ options' = None
    /\ full_args' = <<>>
    /\ result' = Pending
    /\ run_result' = Pending
    /\ exit_code' = None
    /\ spawned' = 0
    /\ reports' = 0
    /\ warnings' = 0
    /\ downloads' = 0
    /\ repair' = Pending
    /\ childStatus' = None
    /\ guestWrites' = 0
    /\ mt' = [mt EXCEPT !["self"] = MtIdle]
    /\ UNCHANGED <<hostVars, requestVars, localBin, localDir, localDirChmod, guest>>

Next ==
    \/ Dispatch
    \/ CheckRootfs
    \/ ResolveBackend
    \/ BuildOptions
    \/ \E p \in Procs : MtabCreateParent(p)
    \/ \E p \in Procs : MtabMetadata(p)
    \/ \E p \in Procs : MtabReadLink(p)
    \/ \E p \in Procs : MtabRemove(p)
    \/ \E p \in Procs : MtabSymlink(p)
    \/ FinishBwrapOptions
    \/ ComposeArgs
    \/ Spawn
    \/ ChildExit
    \/ RunReturn
    \/ MainExit
    \/ Reinvoke

\* ------------------------------------------------------------------ initial states
Backends == {"proot", "bwrap", "chroot"}
RootfsPaths == { <<"/srv/alpine">>, <<"/my", SP, "rootfs">> }
BindSpecs ==
    { None, Some(<<"--bind=/data">>), Some(<<SP, "-b", SP, SP, "/x:/y">>) }
CommandLines == { None, Some(<<>>), Some(<<"ls">>), Some(<<"ls", SP, "-l">>) }
Homes == { Some(<<"/home/u">>), Some(<<"/home/my", SP, "u">>) }
FixedHostPaths ==
    {ProotCandidates[i] : i \in 1..Len(ProotCandidates)}
    \cup {BwrapCandidates[i] : i \in 1..Len(BwrapCandidates)}
\* Hosts on which none, some or all of the candidates exist; every candidate
\* exists on one of them and is missing on another.
FixedSets ==
    { {},
      {<<"/usr/share/fonts">>},
      {<<"/etc/asound.conf">>, <<"/usr/share/font-config">>, <<"/usr/share/themes">>},
      {<<"/etc/fonts">>, <<"/usr/share/fontconfig">>, <<"/usr/share/fonts">>},
      FixedHostPaths }

\* A line of /etc/passwd.
PwLine(name, uidField) ==
    name \o <<":", "x", ":">> \o uidField \o <<":", "100", ":", "/home", ":", "/bin/sh">>
UserNames == { <<"al">>, <<"al", "ice">> }
PasswdFiles ==
    { None,
      Some(<<>>),
      Some(<< PwLine(<<"root">>, <<"0">>), PwLine(<<"al", "ice">>, <<"1001">>) >>),
      Some(<< PwLine(<<"al", "ice">>, <<"1001">>), PwLine(<<"al">>, <<"1000">>) >>),
      Some(<< PwLine(<<"al">>, <<"x">>), <<"al", "ice">> >>) }

\* The guest trees: etc/mtab exists only under a directory etc.
GuestStates ==
    {g \in [etc : {"missing", "dir", "file"},
            mtab : {"missing", "file", "dir", "link_ok", "link_other", "link_broken"},
            writable : BOOLEAN] :
        g.etc # "dir" => g.mtab = "missing"}

\* No invocation came before.
NoPrev == [ran |-> FALSE, rootfs_cmd |-> None, repair |-> Pending, guest |-> NoGuest,
           writes |-> 0]

\* The arguments after `run` that ask for a request: the rootfs and the
\* extra-bind string inline, the flags, the command after the separator.
RunArgv(rootfs_, binds, cmd_, root, ignore, nogroup) ==
    << Inline("rootfs", rootfs_) >>
    \o (IF IsSome(binds) THEN << Inline("bind-args", Unwrap(binds)) >> ELSE <<>>)
    \o (IF root THEN << Flag("0") >> ELSE <<>>)
    \o (IF ignore THEN << LongFlag("ignore-extra-binds") >> ELSE <<>>)
    \o (IF nogroup THEN << Flag("n") >> ELSE <<>>)
    \o (IF IsSome(cmd_) THEN << <<DASH, DASH>>, Unwrap(cmd_) >> ELSE <<>>)

\* No other invocation runs on the rootfs at the same time.
NoPeer == [p \in Procs |-> MtIdle]

\* The invocation before main runs.
InitInvocation ==
    /\ pc = "main"
    /\ rootfs = <<>>
    /\ args_bind = None
    /\ cmd = None
    /\ use_root = FALSE
    /\ ignore_extra_bind = FALSE
    /\ no_group = FALSE
    /\ rootfs_cmd = None
    /\ options = None
    /\ full_args = <<>>
    /\ result = Pending
    /\ run_result = Pending
    /\ exit_code = None
    /\ spawned = 0
    /\ reports = 0
    /\ warnings = 0
    /\ downloads = 0
    /\ repair = Pending
    /\ childStatus = None
    /\ localDirChmod = FALSE
    /\ guestWrites = 0
    /\ runs = 1
    /\ prev = NoPrev

\* Every host in which the invocation can fail or succeed, one request shape.
Init ==
    /\ InitInvocation
    /\ comm \in Backends
    /\ rootfsKind \in {"dir", "file", "missing"}
    /\ whichHit \in BOOLEAN
    /\ localBin \in {"missing", "plain", "exec"}
    /\ localDir \in IF localBin = "missing" THEN {"missing", "dir", "denied"} ELSE {"dir"}
    /\ arch \in {"x86_64", "aarch64"}
    /\ net \in {"ok", "error", "no_length"}
    /\ home \in {None, Some(<<"/home/u">>)}
    /\ guest \in IF rootfsKind = "dir" THEN GuestStates ELSE {NoGuest}
    /\ envUser = Some(<<"al", "ice">>)
    /\ envLogname = None
    /\ passwd = Some(<< PwLine(<<"al", "ice">>, <<"1001">>) >>)
    /\ realUid = 1001
    /\ fixedExists = {}
    /\ iconsReadable = FALSE
    /\ iconCursors = {}
    /\ envRootfs = None
    /\ settRootfs = <<"/cfg/rootfs">>
    /\ mt = NoPeer
    /\ \E root \in BOOLEAN :
         argv = RunArgv(<<"/srv/alpine">>, None, Some(<<"ls", SP, "-l">>), root, FALSE, FALSE)

Spec == Init /\ [][Next]_vars

\* Every request and identity source, on a host where the launch succeeds.
InitIdentity ==
    /\ InitInvocation
    /\ comm \in Backends
    /\ rootfsKind = "dir"
    /\ whichHit = TRUE
    /\ localBin = "missing"
    /\ localDir = "missing"
    /\ arch = "x86_64"
    /\ net = "ok"
    /\ home = Some(<<"/home/u">>)
    /\ guest = [etc |-> "dir", mtab |-> "link_other", writable |-> TRUE]
    /\ envUser \in {None, Some(<<>>)} \cup {Some(n) : n \in UserNames}
    /\ envLogname \in {None, Some(<<"al", "ice">>)}
    /\ passwd \in PasswdFiles
    /\ realUid \in Uids
    /\ fixedExists = {}
    /\ iconsReadable = FALSE
    /\ iconCursors = {}
    /\ envRootfs = None
    /\ settRootfs = <<"/cfg/rootfs">>
    /\ mt = NoPeer
    /\ \E root \in BOOLEAN, binds \in {None, Some(<<"-b", SP, "/x:/y">>)},
          line \in CommandLines :
         argv = RunArgv(<<"/srv/alpine">>, binds, line, root, TRUE, FALSE)

SpecIdentity == InitIdentity /\ [][Next]_vars

\* Every request and host resource that the option strings depend on.
InitBinds ==
    /\ InitInvocation
    /\ comm \in Backends
    /\ rootfsKind = "dir"
    /\ whichHit = TRUE
    /\ localBin = "missing"
    /\ localDir = "missing"
    /\ arch = "x86_64"
    /\ net = "ok"
    /\ home \in Homes
    /\ guest = [etc |-> "dir", mtab |-> "link_other", writable |-> TRUE]
    /\ envUser = Some(<<"al", "ice">>)
    /\ envLogname = None
    /\ passwd = Some(<< PwLine(<<"al", "ice">>, <<"1001">>) >>)
    /\ realUid = 1001
    /\ fixedExists \in FixedSets
    /\ iconsReadable \in BOOLEAN
    /\ iconCursors \in IF iconsReadable THEN SUBSET IconEntries ELSE {{}}
    /\ envRootfs = None
    /\ settRootfs = <<"/cfg/rootfs">>
    /\ mt = NoPeer
    /\ \E path \in RootfsPaths, binds \in BindSpecs, ignore \in BOOLEAN, nogroup \in BOOLEAN :
         argv = RunArgv(path, binds, None, FALSE, ignore, nogroup)

SpecBinds == InitBinds /\ [][Next]_vars

\* The arguments a caller can give after `run`: flags, options that take a
\* value, the separator, a word, an empty argument, and an argument that
\* begins with a dash and is no option of run (a bind in the syntax of the
\* Ptrace backend).
MaxArgs == 3
ArgWords ==
    { Flag("0"), Flag("b"), Flag("c"), Flag("R"),
      Inline("rootfs", <<"/inline/rootfs">>), <<DASH, DASH>>,
      <<"ls">>, <<DASH, "b", SP, "/x:/y">>, <<>> }
ArgVectors ==
    UNION {[1..n -> ArgWords] : n \in 0..MaxArgs}

\* Every argument vector, on a host where the launch succeeds.
InitCli ==
    /\ InitInvocation
    /\ comm = "bwrap"
    /\ rootfsKind = "dir"
    /\ whichHit = TRUE
    /\ localBin = "missing"
    /\ localDir = "missing"
    /\ arch = "x86_64"
    /\ net = "ok"
    /\ home = Some(<<"/home/u">>)
    /\ guest = [etc |-> "dir", mtab |-> "link_other", writable |-> TRUE]
    /\ envUser = Some(<<"al", "ice">>)
    /\ envLogname = None
    /\ passwd = Some(<< PwLine(<<"al", "ice">>, <<"1001">>) >>)
    /\ realUid = 1001
    /\ fixedExists = {}
    /\ iconsReadable = FALSE
    /\ iconCursors = {}
    /\ envRootfs \in {None, Some(<<"/env/rootfs">>)}
    /\ settRootfs = <<"/cfg/rootfs">>
    /\ mt = NoPeer
    /\ argv \in ArgVectors

SpecCli == InitCli /\ [][Next]_vars

\* Two invocations on the same rootfs at the same time: this one, and a peer
\* that is in Mount Table Repair; every guest tree.
InitRace ==
    /\ InitInvocation
    /\ comm = "bwrap"
    /\ rootfsKind = "dir"
    /\ whichHit = TRUE
    /\ localBin = "missing"
    /\ localDir = "missing"
    /\ arch = "x86_64"
    /\ net = "ok"
    /\ home = Some(<<"/home/u">>)
    /\ guest \in GuestStates
    /\ envUser = Some(<<"al", "ice">>)
    /\ envLogname = None
    /\ passwd = Some(<< PwLine(<<"al", "ice">>, <<"1001">>) >>)
    /\ realUid = 1001
    /\ fixedExists = {}
    /\ iconsReadable = FALSE
    /\ iconCursors = {}
    /\ envRootfs = None
    /\ settRootfs = <<"/cfg/rootfs">>
    /\ argv = RunArgv(<<"/srv/alpine">>, None, None, FALSE, TRUE, TRUE)
    /\ mt = [NoPeer EXCEPT !["peer"] = MtStart(guest)]

SpecRace == InitRace /\ [][Next]_vars

\* ------------------------------------------------------------------ claims
\* The part of the Ptrace option string after the base arguments and the
\* caller's extra-bind string.
ProotEngineTail ==
    Drop(Unwrap(options), Len(rootfs) + Len(unwrap_or_default(args_bind)) + 7)

GuestGroupBind == <<"--bind=">> \o rootfs \o <<"/etc/group:/etc/group">>
GuestPasswdBind == <<"--bind=">> \o rootfs \o <<"/etc/passwd:/etc/passwd">>
ProotPlanBuilt == comm = "proot" /\ IsSome(options)

\* C1 as stated: the Ptrace plan holds the binds of the guest's own /etc/group
\* and /etc/passwd if and only if noGroupMapping is false.
C1_Stated ==
    ProotPlanBuilt =>
        /\ ~no_group => /\ Contains(ProotEngineTail, GuestGroupBind)
                        /\ Contains(ProotEngineTail, GuestPasswdBind)
        /\ no_group => /\ ~Contains(ProotEngineTail, GuestGroupBind)
                       /\ ~Contains(ProotEngineTail, GuestPasswdBind)

\* C1 amended: the option string build_proot_options puts after the caller's
\* extra-bind string holds the binds of the guest's own /etc/group and
\* /etc/passwd if and only if noGroupMapping is true.
C1_GuestBindsIffNoGroup ==
    ProotPlanBuilt =>
        /\ no_group => /\ Contains(ProotEngineTail, GuestGroupBind)
                       /\ Contains(ProotEngineTail, GuestPasswdBind)
        /\ ~no_group => /\ ~Contains(ProotEngineTail, GuestGroupBind)
                        /\ ~Contains(ProotEngineTail, GuestPasswdBind)

C1_Witness ==
    /\ ProotPlanBuilt
    /\ no_group
    /\ ~ignore_extra_bind
    /\ rootfs = <<"/my", SP, "rootfs">>
    /\ IsSome(args_bind)
    /\ Contains(ProotEngineTail, GuestGroupBind)

\* The part of the Namespace option string after the base arguments, the
\* caller's extra-bind string and the PATH override.
BwrapEngineTail ==
    Drop(Unwrap(options),
         Len(BwrapBase(rootfs, unwrap_or_default(args_bind), Unwrap(home))))

HostPasswdBind == <<"--ro-bind-try", SP, "/etc/passwd", SP, "/etc/passwd">>
HostGroupBind == <<"--ro-bind-try", SP, "/etc/group", SP, "/etc/group">>
BwrapPlanBuilt == comm = "bwrap" /\ IsSome(options)

\* C2: the Namespace plan holds the read-only binds of the host's /etc/passwd
\* and /etc/group if and only if noGroupMapping is false, for every rootfs
\* path, extra-bind string and ignoreExtraBinds value.
C2_HostBindsIffGroupMapping ==
    BwrapPlanBuilt =>
        /\ ~no_group => /\ Contains(BwrapEngineTail, HostPasswdBind)
                        /\ Contains(BwrapEngineTail, HostGroupBind)
        /\ no_group => /\ ~Contains(BwrapEngineTail, HostPasswdBind)
                       /\ ~Contains(BwrapEngineTail, HostGroupBind)

C2_Witness ==
    /\ BwrapPlanBuilt
    /\ no_group
    /\ ~ignore_extra_bind
    /\ fixedExists # {}
    /\ IsSome(args_bind)
    /\ ~Contains(BwrapEngineTail, HostPasswdBind)

\* C3: when rootfsPath is not a directory, Command::run fails with the
\* rootfs-missing error before any other step: no backend is resolved or
\* downloaded, no plan is built, Mount Table Repair does not run and changes
\* nothing, and no child is spawned.
C3_MissingRootfsStopsFirst ==
    rootfsKind # "dir" =>
        /\ pc \in {"main", "check", "run_ret", "main_ret", "exited"}
        /\ pc \in {"run_ret", "main_ret", "exited"} => result = Err("RootfsMissing")
        /\ rootfs_cmd = None
        /\ downloads = 0
        /\ ~localDirChmod
        /\ options = None
        /\ full_args = <<>>
        /\ repair = Pending
        /\ warnings = 0
        /\ guest = NoGuest
        /\ spawned = 0
        /\ childStatus = None

C3_Witness ==
    /\ rootfsKind = "file"
    /\ pc = "exited"
    /\ result = Err("RootfsMissing")
    /\ comm = "bwrap"
    /\ ~whichHit /\ localBin = "missing" /\ arch = "x86_64" /\ net = "ok"

Composed == full_args # <<>>

\* C4: with useRoot the identity part encodes id 0 in the backend's form and
\* never another id: Ptrace gets -0 and the tokens PS1=# , USER=root,
\* LOGNAME=root, UID=0, EUID=0; Namespace gets --uid 0 --gid 0 --setenv USER
\* root --setenv LOGNAME root and the prompt PS1=# .
C4_RootIdentityIsZero ==
    (Composed /\ use_root) =>
        /\ comm = "proot" =>
             Contains(full_args,
                      << <<"-0">>, <<"env">>, <<"PS1=", "#", SP>>, <<"USER=root">>,
                         <<"LOGNAME=root">>, <<"UID=", "0">>, <<"EUID=", "0">>,
                         <<"SHELL=/bin/sh">> >>)
        /\ comm = "bwrap" =>
             Contains(full_args,
                      << <<"--uid">>, <<"0">>, <<"--gid">>, <<"0">>,
                         <<"--setenv">>, <<"USER">>, <<"root">>,
                         <<"--setenv">>, <<"LOGNAME">>, <<"root">>,
                         <<"env">>, <<"PS1=", "#", SP>>, <<"SHELL=/bin/sh">> >>)
        /\ \A i \in 1..Len(full_args) :
             full_args[i][1] \in {"UID=", "EUID="} => full_args[i][2] = "0"

C4_Witness ==
    /\ Composed
    /\ use_root
    /\ comm = "proot"
    /\ get_uid_from_passwd = 1001
    /\ realUid = 1001

\* C5 as stated: with useRoot false the UID= and EUID= tokens carry the real
\* uid of the calling process, whatever USER, LOGNAME and /etc/passwd hold, and
\* the prompt is PS1=$ .
C5_Stated ==
    (Composed /\ ~use_root) =>
        Contains(full_args,
                 << <<"env">>, <<"PS1=", "$", SP>>, <<"UID=", ToString(realUid)>>,
                    <<"EUID=", ToString(realUid)>>, <<"SHELL=/bin/sh">> >>)

\* A token of the identity part.
IsIdentityToken(t) ==
    t[1] \in {"PS1=", "USER=root", "LOGNAME=root", "UID=", "EUID="}

\* The argument vector ends with env, the identity tokens, SHELL, PATH and
\* /bin/sh, then -c and the command line c as one argument when withCmd.
EndsWithShell(withCmd, c) ==
    LET n == Len(full_args)
        sh == IF withCmd THEN n - 2 ELSE n
    IN  /\ sh >= 5
        /\ full_args[sh] = <<"/bin/sh">>
        /\ full_args[sh - 1] = <<"PATH=", "/bin:/sbin:/usr/bin:/usr/sbin:/usr/libexec">>
        /\ full_args[sh - 2] = <<"SHELL=/bin/sh">>
        /\ \E e \in 1..(sh - 4) :
             /\ full_args[e] = <<"env">>
             /\ \A i \in (e + 1)..(sh - 3) : IsIdentityToken(full_args[i])
        /\ withCmd => full_args[n - 1] = <<"-c">> /\ full_args[n] = c

\* C6 as stated: a present commandLine is followed out as -c and one argument,
\* an absent one leaves /bin/sh last.
C6_Stated ==
    Composed => EndsWithShell(IsSome(cmd), unwrap_or_default(cmd))

\* C6 amended: the vector ends with env, the identity tokens, SHELL=/bin/sh,
\* the fixed PATH and /bin/sh; a present and non-empty commandLine follows as
\* exactly -c and the whole commandLine as one argument; nothing follows
\* /bin/sh when commandLine is absent or the empty string.
C6_ShellTailOneCommandArg ==
    Composed => EndsWithShell(unwrap_or_default(cmd) # <<>>, unwrap_or_default(cmd))

C6_Witness ==
    /\ Composed
    /\ cmd = Some(<<"ls", SP, "-l">>)
    /\ comm = "bwrap"
    /\ use_root
    /\ full_args[Len(full_args)] = <<"ls", SP, "-l">>

\* C7: once the child is spawned Command::run returns only when it has ended,
\* with Ok(c) for exit code c, zero or not, and Ok(-1) for a child killed by a
\* signal.
C7_ReturnsChildCode ==
    /\ pc = "wait" => (result = Pending /\ spawned = 1 /\ childStatus = None)
    /\ IsSome(childStatus) =>
         /\ result.kind = "ok"
         /\ Unwrap(childStatus).kind = "exited" => result.val = Unwrap(childStatus).code
         /\ Unwrap(childStatus).kind = "signaled" => result.val = -1

C7_Witness ==
    /\ pc = "run_ret"
    /\ IsSome(childStatus)
    /\ Unwrap(childStatus).kind = "signaled"
    /\ result = Ok(-1)

\* C8 as stated: the exit code of the process equals the exit code of the
\* child (or the -1 sentinel), for every child exit code.
C8_Stated ==
    (pc = "exited" /\ IsSome(childStatus)) =>
        exit_code = Some(IF Unwrap(childStatus).kind = "exited"
                         THEN Unwrap(childStatus).code ELSE -1)

\* C9 as stated: an invocation that ends on a fatal condition ends with exit
\* code 1 and one error report.
C9_Stated ==
    (pc = "exited" /\ result.kind # "ok") =>
        (exit_code = Some(1) /\ reports = 1)

\* C10 as stated: when Mount Table Repair fails, the plan is still composed
\* and the invocation goes on to launch the backend.
C10_Stated ==
    repair.kind = "err" =>
        (IsSome(options) /\ result.kind # "panic")

\* C11: Mount Table Repair is idempotent.  A call that succeeds leaves etc/mtab
\* a symlink to /proc/self/mounts under a directory etc, whatever was there
\* before; the next call on the same rootfs returns no error and leaves the
\* guest tree as the first call left it.
C11_RepairIdempotent ==
    /\ repair.kind = "ok" => (guest.etc = "dir" /\ guest.mtab = "link_ok")
    /\ (prev.ran /\ prev.repair.kind = "ok" /\ repair.kind # "pending") =>
         /\ repair.kind = "ok"
         /\ guest = prev.guest
         /\ guestWrites = 0

C11_Witness ==
    /\ prev.ran
    /\ prev.repair.kind = "ok"
    /\ prev.writes = 2
    /\ repair.kind = "ok"
    /\ guest.mtab = "link_ok"

\* C12: when etc/mtab is already a symlink to /proc/self/mounts, Mount Table
\* Repair removes nothing, creates nothing, leaves the guest tree as it is,
\* logs no warning and returns success.
C12_CorrectLinkIsNoOp ==
    (mt["peer"].pc = "idle" /\ mt["self"].pc # "idle" /\ mt["self"].g0.mtab = "link_ok") =>
        /\ guest = mt["self"].g0
        /\ mt["self"].writes = 0
        /\ mt["self"].warns = 0
        /\ mt["self"].pc = "done" => mt["self"].res = Ok(0)
        /\ repair.kind # "pending" => (repair = Ok(0) /\ guestWrites = 0 /\ warnings = 0)

C12_Witness ==
    /\ runs = 1
    /\ comm = "bwrap"
    /\ repair = Ok(0)
    /\ guestWrites = 0
    /\ guest.mtab = "link_ok"
    /\ ~guest.writable

\* <home>/.local/bin/<backend>, the place of the backend in the local cache.
LocalCachePath ==
    concat_path(concat_path(get_safe_home, <<".local/bin">>), <<comm>>)

\* A step that downloads nothing and writes nothing to the local cache.
NothingFetched ==
    /\ downloads' = downloads
    /\ localBin' = localBin
    /\ localDir' = localDir
    /\ localDirChmod' = localDirChmod

\* C13: the Backend Selector resolves in a fixed priority order.  A hit on the
\* search path is returned first; otherwise an existing file of the local
\* cache is returned; a download happens only when both miss and only on
\* x86_64; on another architecture with both missing the call fails with the
\* backend-unavailable error, and nothing is downloaded or written.
C13_SelectorPriority ==
    [][pc = "resolve" =>
          /\ whichHit =>
               (rootfs_cmd' = Some(WhichPath(comm)) /\ NothingFetched)
          /\ (~whichHit /\ localBin # "missing") =>
               (rootfs_cmd' = Some(LocalCachePath) /\ NothingFetched)
          /\ downloads' # downloads =>
               (~whichHit /\ localBin = "missing" /\ arch = "x86_64")
          /\ (~whichHit /\ localBin = "missing" /\ arch # "x86_64") =>
               /\ result' = Err("BackendUnavailable")
               /\ rootfs_cmd' = None
               /\ NothingFetched]_vars

C13_Witness ==
    /\ runs = 1
    /\ comm = "proot"
    /\ ~whichHit
    /\ localBin = "missing"
    /\ localDir = "missing"
    /\ arch = "aarch64"
    /\ result = Err("BackendUnavailable")
    /\ downloads = 0

\* The errors that tell of an unsupported backend identifier.
IsConfigurationError(r) ==
    r.kind = "err" /\ r.err \in {"UnsupportedCommand", "InvalidInput"}

\* C14 as stated: with a backend identifier other than the two supported
\* ones, Command::run fails with the configuration error on every host and
\* architecture, and nothing is downloaded, written or spawned.
C14_Stated ==
    (comm \notin {"proot", "bwrap"} /\ rootfsKind = "dir"
       /\ pc \in {"run_ret", "main_ret", "exited"}) =>
        /\ IsConfigurationError(result)
        /\ downloads = 0
        /\ ~localDirChmod
        /\ spawned = 0

\* C15 as stated: when the Backend Selector downloads the backend, the path
\* it returns is <home>/.local/bin/<backend>, and that file is the one made
\* executable.
C15_Stated ==
    (downloads > 0 /\ IsSome(rootfs_cmd)) =>
        /\ rootfs_cmd = Some(LocalCachePath)
        /\ localBin = "exec"

\* C16 as stated: two consecutive invocations with the same backend
\* identifier resolve the same executable path, also when the first one had
\* to download the binary.
C16_Stated ==
    (prev.ran /\ IsSome(prev.rootfs_cmd) /\ IsSome(rootfs_cmd)) =>
        rootfs_cmd = prev.rootfs_cmd

\* The six fixed optional host paths, in the predetermined order.
SixCandidates ==
    << <<"/etc/asound.conf">>, <<"/etc/fonts">>, <<"/usr/share/font-config">>,
       <<"/usr/share/fontconfig">>, <<"/usr/share/fonts">>, <<"/usr/share/themes">> >>

\* The plan has just been composed by Command::run.
PlanComposed ==
    pc = "spawn"

\* The number of arguments of the base part of the plan, the caller's
\* extra-bind arguments not counted: for Ptrace -R, the rootfs and the two
\* removable-media binds; for Namespace the 54 fixed arguments up to
\* --bind /mnt /mnt, the rootfs once and the home directory twice.
BaseArgCount ==
    IF comm = "proot"
    THEN 1 + Len(split_whitespace(rootfs)) + 2
    ELSE 54 + Len(split_whitespace(rootfs)) + 2 * Len(split_whitespace(Unwrap(home)))

\* The arguments the caller's extra-bind string contributes.
SpecArgs ==
    split_whitespace(unwrap_or_default(args_bind))

\* The plan after the base arguments and the caller's extra-bind arguments.
PlanTail ==
    Drop(full_args, BaseArgCount + Len(SpecArgs))

\* The number of bind contributions for the host path p in the arguments a:
\* --bind=<p> for Ptrace, --ro-bind <p> <p> for Namespace.
Contributions(a, p) ==
    IF comm = "proot"
    THEN Cardinality({i \in 1..Len(a) : a[i] = <<"--bind=">> \o p})
    ELSE Cardinality({i \in 1..(Len(a) - 2) :
                        a[i] = <<"--ro-bind">> /\ a[i + 1] = p /\ a[i + 2] = p})

\* C17: for both variants the plan holds exactly one bind contribution for
\* each of the six fixed candidates that exists when ignoreExtraBinds is
\* false, and none for any of the six when ignoreExtraBinds is true or the
\* path does not exist; none at all when none of the six exists.
C17_OneBindPerExistingCandidate ==
    PlanComposed =>
        \A i \in 1..Len(SixCandidates) :
            Contributions(PlanTail, SixCandidates[i]) =
                IF ~ignore_extra_bind /\ SixCandidates[i] \in fixedExists THEN 1 ELSE 0

C17_Witness ==
    /\ PlanComposed
    /\ comm = "bwrap"
    /\ ~ignore_extra_bind
    /\ fixedExists = {<<"/usr/share/fonts">>}
    /\ Contributions(PlanTail, <<"/usr/share/fonts">>) = 1
    /\ Contributions(PlanTail, <<"/usr/share/fontconfig">>) = 0

\* The entries of the host icon directory that have a cursors directory.
CursorEntries ==
    IF iconsReadable THEN iconCursors ELSE {}

\* C18 as stated: with ignoreExtraBinds false, for both variants, the plan
\* holds exactly one bind contribution for the cursors directory of each entry
\* of /usr/share/icons that has one, and none for the other entries or when
\* the icon directory is unreadable, whatever the enumeration order.
C18_Stated ==
    (PlanComposed /\ ~ignore_extra_bind) =>
        \A e \in IconEntries :
            Contributions(PlanTail, CursorsDir(e)) = IF e \in CursorEntries THEN 1 ELSE 0

\* The fixed candidates that exist on the host, in the predetermined order.
ExistingFixed ==
    SelectSeq(SixCandidates, LAMBDA p : p \in fixedExists)

\* The cursors directories of the entries, in the enumeration order `order`.
IconPaths(order) ==
    LET hit(e) == e \in CursorEntries
        es == SelectSeq(order, hit)
    IN  [i \in 1..Len(es) |-> CursorsDir(es[i])]

\* The optional binds of the paths ps in the form of the variant: one
\* --bind=<p> argument for Ptrace, the three arguments --ro-bind <p> <p> for
\* Namespace.
OptionalBindArgs(ps) ==
    IF comm = "proot"
    THEN [i \in 1..Len(ps) |-> <<"--bind=">> \o ps[i]]
    ELSE Flatten([i \in 1..Len(ps) |-> << <<"--ro-bind">>, ps[i], ps[i] >>])

\* The position of the env argument, which follows the binds of the plan
\* when the identity is not root.
EnvAt ==
    CHOOSE i \in 1..Len(full_args) :
        /\ full_args[i] = <<"env">>
        /\ \A j \in (i + 1)..Len(full_args) : full_args[j] # <<"env">>

\* C19 as stated: with ignoreExtraBinds false both variants contribute
\* optional binds for the same paths, the existing fixed candidates in the
\* predetermined order first, then the icon-theme cursors directories in some
\* enumeration order; each Ptrace contribution is one --bind=<path> flag,
\* each Namespace contribution a read-only bind pair of the path with itself.
C19_Stated ==
    (PlanComposed /\ ~ignore_extra_bind /\ ~use_root) =>
        \E order \in Orders(IconEntries) :
            LET binds == OptionalBindArgs(ExistingFixed \o IconPaths(order))
            IN  /\ EnvAt > Len(binds)
                /\ SubSeq(full_args, EnvAt - Len(binds), EnvAt - 1) = binds

\* The arguments of the plan that stand where the caller's extra-bind
\* arguments are expected: right after the base arguments.
SpecSegment ==
    SubSeq(full_args, BaseArgCount + 1, BaseArgCount + Len(SpecArgs))

\* C20 as stated: the arguments passed to the backend hold the content of
\* extraBindSpec unchanged after the base arguments: put together again they
\* are the string, nothing added, removed or rewritten.
C20_Stated ==
    PlanComposed => JoinSp(SpecSegment) = unwrap_or_default(args_bind)

\* An argument of a passwd/group bind or of an optional host bind.
IsEngineBindArg(a) ==
    /\ a # <<>>
    /\ \/ a \in {<<"/etc/passwd">>, <<"/etc/group">>}
       \/ a[Len(a)] \in {"/etc/group:/etc/group", "/etc/passwd:/etc/passwd", "/cursors"}
       \/ \E i \in 1..Len(SixCandidates) :
             a = SixCandidates[i] \/ a = <<"--bind=">> \o SixCandidates[i]

\* C20 amended: the white-space-separated words of extraBindSpec reach the
\* backend unchanged and in order, as consecutive arguments placed right after
\* the base arguments (the rootfs and the two removable-media binds) and before
\* any passwd/group or optional host bind; no argument is added between them
\* and none of them is removed or rewritten.
C20_SpecWordsAfterBase ==
    PlanComposed =>
        LET b == BaseArgCount
            n == Len(SpecArgs)
        IN  /\ Len(full_args) > b + n
            /\ IF comm = "proot"
               THEN /\ full_args[1] = <<"-R">>
                    /\ SubSeq(full_args, b - 1, b) = << <<"--bind=/media">>, <<"--bind=/mnt">> >>
               ELSE SubSeq(full_args, b - 5, b) =
                        << <<"--bind">>, <<"/media">>, <<"/media">>,
                           <<"--bind">>, <<"/mnt">>, <<"/mnt">> >>
            /\ SpecSegment = SpecArgs
            /\ \A i \in 1..b : ~IsEngineBindArg(full_args[i])
            /\ IF comm = "proot"
               THEN full_args[b + n + 1][1] \in {"--bind=", "env", "-0"}
               ELSE full_args[b + n + 1] = <<"--setenv">>

C20_Witness ==
    /\ PlanComposed
    /\ comm = "bwrap"
    /\ ~no_group
    /\ fixedExists # {}
    /\ args_bind = Some(<<SP, "-b", SP, SP, "/x:/y">>)
    /\ SpecSegment = << <<"-b">>, <<"/x:/y">> >>

\* The name field of a line of /etc/passwd.
PwName(line) ==
    split(line, ":")[1]

\* The uid recorded in the /etc/passwd entry of the user named by USER (by
\* LOGNAME when USER is unset): None when there is no such name, no readable
\* file, no entry with that name, or no numeric uid field in it.
RecordedUid ==
    LET name == IF IsSome(envUser) THEN Unwrap(envUser) ELSE unwrap_or_default(envLogname)
        lines == unwrap_or_default(passwd)
        mine == SelectSeq(lines, LAMBDA l : PwName(l) = name)
        fields == split(mine[1], ":")
    IN  IF name = <<>> \/ mine = <<>> THEN None
        ELSE IF Len(fields) < 3 THEN None
        ELSE parse_u32(fields[3])

\* C24 as stated: the uid in the identity tokens is the one recorded in the
\* /etc/passwd entry whose name field equals the user's name, and the fallback
\* 1000 exactly when there is no such uid.
C24_Stated ==
    (pc = "spawn" /\ ~use_root) =>
        LET uid == IF IsSome(RecordedUid) THEN Unwrap(RecordedUid) ELSE 1000
        IN  Contains(full_args, << <<"UID=", ToString(uid)>>, <<"EUID=", ToString(uid)>> >>)

\* C28 as stated: the rootfs reaches the backend as one single argument equal
\* to rootfsPath, the argument after -R for Ptrace and the source argument of
\* --bind ... / for Namespace, also when the path holds white space.
C28_Stated ==
    PlanComposed =>
        IF comm = "proot"
        THEN full_args[1] = <<"-R">> /\ full_args[2] = rootfs
        ELSE /\ full_args[3] = <<"--bind">>
             /\ full_args[4] = rootfs
             /\ full_args[5] = <<"/">>

\* C29 as stated: in the Namespace variant the argument after --setenv PATH is
\* exactly the fixed search path, the same string as the value of the PATH=
\* assignment that follows the identity tokens.
C29_Stated ==
    (PlanComposed /\ comm = "bwrap") =>
        \E i \in 1..(Len(full_args) - 2), j \in 1..Len(full_args) :
            /\ full_args[i] = <<"--setenv">>
            /\ full_args[i + 1] = <<"PATH">>
            /\ full_args[j][1] = "PATH="
            /\ full_args[i + 2] = Tail(full_args[j])
            /\ full_args[i + 2] = <<"/bin:/sbin:/usr/bin:/usr/sbin:/usr/libexec">>

\* Run::run returned with an argument error, Command::run was not called.
ArgError ==
    run_result.kind = "err" /\ run_result.err \in {"MissingValue", "InvalidArgument"}

\* The arguments were read and Run::run built a request from them.
Requested ==
    pc # "main" /\ ~ArgError

\* The request Run::run builds from locals st.
RequestOf(st) ==
    <<st.rootfs_dir, st.bind_args, final_cmd(st.cmd_args), st.use_root,
      st.ignore_extra_bind, st.no_groups>>

\* The positions of argv where -b or --bind-args is given with a non-empty
\* next argument, after nothing but flags.
NextFormAt ==
    {i \in 1..(Len(argv) - 1) :
        /\ argv[i] \in {Flag("b"), LongFlag("bind-args")}
        /\ argv[i + 1] # <<>>
        /\ \A j \in 1..(i - 1) : argv[j] = Flag("0")}

\* argv with the two arguments at i and i + 1 replaced by the inline form.
InlineFormOf(i) ==
    SubSeq(argv, 1, i - 1) \o << Inline("bind-args", argv[i + 1]) >>
    \o SubSeq(argv, i + 2, Len(argv))

\* C21 as stated: giving the extra-bind string as the next argument of -b or
\* --bind-args produces the same request as giving it inline, for every
\* non-empty string, those that begin with a dash included.
C21_Stated ==
    pc # "main" =>
        \A i \in NextFormAt :
            LET st == parse_args(InlineFormOf(i), RunLocals)
            IN  IF st.err = ""
                THEN ~ArgError /\ requestVars = RequestOf(st)
                ELSE run_result = Err(st.err)

\* The options of run that take a value from the next argument.
ValueOptions ==
    {Flag("b"), LongFlag("bind-args"), Flag("c"), LongFlag("command"),
     Flag("R"), LongFlag("rootfs")}
RootOptions == {Flag("0"), LongFlag("root")}
InlineKeys == {"bind-args", "command", "rootfs"}
IsInlineOption(a) ==
    \E k \in InlineKeys : starts_with(a, Inline(k, <<>>))

\* The positions of argv that are read as options: those before the command
\* part that are not the value of the option before them.
RECURSIVE OptionsFrom(_)
OptionsFrom(i) ==
    IF i > Len(argv) THEN {}
    ELSE IF argv[i] = <<DASH, DASH>> \/ ~starts_with_dash(argv[i]) THEN {}
    ELSE {i} \cup OptionsFrom(IF argv[i] \in ValueOptions THEN i + 2 ELSE i + 1)
OptionPositions == OptionsFrom(1)

\* The position where the command part starts, Len(argv) + 1 and more when
\* there is none.
CommandStart ==
    IF OptionPositions = {} THEN 1
    ELSE LET last == CHOOSE i \in OptionPositions : \A j \in OptionPositions : j <= i
         IN  IF argv[last] \in ValueOptions THEN last + 2 ELSE last + 1

\* The arguments of the command part, the separator left out.
CommandWords ==
    IF CommandStart > Len(argv) THEN <<>>
    ELSE IF argv[CommandStart] = <<DASH, DASH>>
    THEN SubSeq(argv, CommandStart + 1, Len(argv))
    ELSE SubSeq(argv, CommandStart, Len(argv))

\* The value the option at position i is given.
OptionValue(i) ==
    IF argv[i] \in ValueOptions THEN argv[i + 1] ELSE Drop(argv[i], find_eq(argv[i]))

\* The values of the options at the positions ps, in the order of argv.
RECURSIVE ValuesAt(_)
ValuesAt(ps) ==
    IF ps = {} THEN <<>>
    ELSE LET first == CHOOSE i \in ps : \A j \in ps : i <= j
         IN  <<OptionValue(first)>> \o ValuesAt(ps \ {first})

CommandOptions ==
    {i \in OptionPositions :
        argv[i] \in {Flag("c"), LongFlag("command")}
        \/ starts_with(argv[i], Inline("command", <<>>))}
RootfsOptions ==
    {i \in OptionPositions :
        argv[i] \in {Flag("R"), LongFlag("rootfs")}
        \/ starts_with(argv[i], Inline("rootfs", <<>>))}

\* The option at position i is one run knows.
KnownOption(i) ==
    \/ argv[i] \in ValueOptions \cup RootOptions
    \/ argv[i] \in {Flag("i"), LongFlag("ignore-extra-binds"), Flag("n"), LongFlag("no-groups")}
    \/ IsInlineOption(argv[i])

\* The option at position i has the value it needs.
ValueGiven(i) ==
    IF argv[i] \in ValueOptions
    THEN i < Len(argv) /\ argv[i + 1] # <<>> /\ ~starts_with_dash(argv[i + 1])
    ELSE IsInlineOption(argv[i]) => OptionValue(i) # <<>>

\* C22: once the command part starts, at -- or at the first argument without
\* a leading dash, every argument left is a word of the command, dash or not,
\* the words joined in order by single spaces after the values of -c; the
\* flags before that point apply; an unknown dash-argument before that point
\* is an invalid-argument error and no backend is launched.
C22_CommandPartIsNotParsed ==
    pc # "main" =>
        /\ ~ArgError =>
              /\ cmd = (IF CommandOptions = {} /\ CommandWords = <<>> THEN None
                        ELSE Some(JoinSp(ValuesAt(CommandOptions) \o CommandWords)))
              /\ use_root = (\E i \in OptionPositions : argv[i] \in RootOptions)
        /\ (\E i \in OptionPositions :
               /\ ~KnownOption(i)
               /\ \A j \in OptionPositions : j < i => ValueGiven(j))
             => run_result = Err("InvalidArgument")
        /\ (\E i \in 1..Len(argv) :
               i < CommandStart /\ starts_with_dash(argv[i]) /\ ~KnownOption(i))
             => /\ ArgError
                /\ spawned = 0
                /\ full_args = <<>>
                /\ pc \in {"main_ret", "exited"}
        /\ (\A i \in OptionPositions : KnownOption(i) /\ ValueGiven(i)) => ~ArgError

\* C22 witness: after the first word, the flag -0 and another argument that
\* begins with a dash are words of the command of a launched backend.
C22_Witness ==
    /\ pc = "wait"
    /\ argv = << <<"ls">>, Flag("0"), <<DASH, "b", SP, "/x:/y">> >>
    /\ ~use_root
    /\ cmd = Some(<<"ls", SP, DASH, "0", SP, DASH, "b", SP, "/x:/y">>)

\* C23: the rootfs path of the request is the value of the last -R, --rootfs
\* or --rootfs= option when there is one, otherwise ALPACK_ROOTFS when it is
\* set, otherwise rootfs_dir of the configuration.
C23_RootfsPrecedence ==
    Requested =>
        rootfs = (IF RootfsOptions # {}
                  THEN ValuesAt(RootfsOptions)[Cardinality(RootfsOptions)]
                  ELSE IF IsSome(envRootfs) THEN Unwrap(envRootfs)
                  ELSE settRootfs)

\* C23 witness: with ALPACK_ROOTFS set and the option given twice, the
\* request has the value of the second option.
C23_Witness ==
    /\ pc = "spawn"
    /\ IsSome(envRootfs)
    /\ argv = << Inline("rootfs", <<"/inline/rootfs">>), Flag("R"), <<"ls">> >>
    /\ rootfs = <<"ls">>

\* The positions of an invocation in the order of the code.
StepOrder ==
    <<"main", "check", "resolve", "build", "repair", "compose", "spawn", "wait",
      "run_ret", "main_ret", "exited">>
Rank(p) ==
    CHOOSE i \in 1..Len(StepOrder) : StepOrder[i] = p

\* C25: within one invocation the steps happen in the order rootfs check,
\* backend resolution, plan composition with Mount Table Repair, spawn, wait,
\* each at most once; a step that fails ends Command::run, so the backend is
\* spawned at most once and only after every step before it succeeded.
C25_StepsInOrderOnce ==
    [][/\ (pc' # pc /\ ~(pc = "exited" /\ pc' = "main")) => Rank(pc') > Rank(pc)
       /\ (result' # result /\ result'.kind \in {"err", "panic"})
            => pc' \in {"run_ret", "exited"}
       /\ (pc \in {"run_ret", "main_ret", "exited"} /\ pc' # "main")
            => /\ spawned' = spawned
               /\ rootfs_cmd' = rootfs_cmd
               /\ options' = options
               /\ full_args' = full_args
               /\ guest' = guest
               /\ downloads' = downloads
       /\ spawned' > spawned
            => /\ spawned = 0
               /\ pc = "spawn"
               /\ result = Pending
               /\ rootfsKind = "dir"
               /\ IsSome(rootfs_cmd)
               /\ IsSome(options)
               /\ full_args # <<>>
               /\ comm = "bwrap" => repair = Ok(0)]_vars

\* C25 witness: the Namespace backend runs in the second invocation, after
\* the repair changed the guest.
C25_Witness ==
    /\ pc = "wait"
    /\ spawned = 1
    /\ runs = 2
    /\ comm = "bwrap"
    /\ repair = Ok(0)
    /\ prev.writes = 2

\* A guest tree on which Mount Table Repair, running alone, can make the
\* link or finds it made.
Repairable(g) ==
    \/ g.mtab = "link_ok"
    \/ g.writable /\ g.etc # "file" /\ g.mtab # "dir"

\* C26: Mount Table Repair that returns success leaves etc/mtab a symlink to
\* /proc/self/mounts, whatever was at the path before; when that state cannot
\* be reached it returns an error after logging a warning; it returns success
\* exactly when the state can be reached.
C26_SuccessIffLinked ==
    mt["peer"].pc = "idle" =>
        /\ repair.kind = "ok" => (guest.etc = "dir" /\ guest.mtab = "link_ok")
        /\ repair.kind = "err" => (warnings >= 1 /\ guest.mtab # "link_ok")
        /\ repair.kind # "pending" => (repair.kind = "ok" <=> Repairable(mt["self"].g0))

\* C26 witness: the repair returned success on a guest without etc.
C26_Witness ==
    /\ repair = Ok(0)
    /\ mt["self"].g0.etc = "missing"
    /\ guest.mtab = "link_ok"
    /\ guestWrites = 2

\* C27: composing the plan of the Ptrace variant leaves the guest rootfs as
\* it is and does not run Mount Table Repair; the plan of the Namespace
\* variant is composed only after Mount Table Repair ran, whatever the flags.
C27_PtraceLeavesGuest ==
    [][/\ comm = "proot" => /\ guest' = guest
                            /\ mt'["self"] = MtIdle
                            /\ repair' = Pending
                            /\ guestWrites' = 0
       /\ (comm = "bwrap" /\ ~IsSome(options) /\ IsSome(options'))
            => /\ mt["self"].pc = "done"
               /\ repair' = Ok(0)]_vars

\* C27 witness: the Ptrace plan is composed and etc/mtab is still the wrong
\* link.
C27_Witness ==
    /\ comm = "proot"
    /\ pc = "spawn"
    /\ guest.mtab = "link_other"
    /\ no_group
    /\ ~ignore_extra_bind

\* Both invocations are through Mount Table Repair.
BothFinished ==
    mt["peer"].pc = "done" /\ repair.kind # "pending"

\* C30 as stated: when two invocations run Mount Table Repair at the same
\* time on a rootfs where each alone would succeed, once both have finished
\* etc/mtab is a symlink to /proc/self/mounts and both returned success.
C30_Stated ==
    (BothFinished /\ Repairable(mt["peer"].g0)) =>
        /\ guest.mtab = "link_ok"
        /\ repair = Ok(0)
        /\ mt["peer"].res = Ok(0)

\* C30 amended: once both have finished etc/mtab is a symlink to
\* /proc/self/mounts and at least one of the two returned success.
C30_LinkedAndOneSucceeds ==
    (BothFinished /\ Repairable(mt["peer"].g0)) =>
        /\ guest.etc = "dir"
        /\ guest.mtab = "link_ok"
        /\ repair = Ok(0) \/ mt["peer"].res = Ok(0)

\* C30 witness: the peer made the link, this invocation found it in the way
\* of its own symlink call.
C30_Witness ==
    /\ BothFinished
    /\ mt["peer"].g0.mtab = "file"
    /\ mt["peer"].res = Ok(0)
    /\ repair.kind = "err"
    /\ guest.mtab = "link_ok"

====
